---- MODULE Spec2Model ----
(***************************************************************************)
(* Model of the Bazaar query server (main.go): the configuration reload    *)
(* (processMonitorFile / processSearchQueries), the monitor poll loop      *)
(* (processMonitorItems), the two dedup maps and the two CSV result        *)
(* stores.                                                                 *)
(*                                                                         *)
(* A text (a CSV field, a table cell, an ini value) is a sequence of       *)
(* tokens; the token " " is white space.  A CSV row is a sequence of       *)
(* texts and a store is the sequence of the rows of its file.              *)
(***************************************************************************)
EXTENDS Integers, Sequences, FiniteSets, TLC

\* ------------------------------------------------------------------ bounds
\* number of file-write events the watcher goroutine handles
MaxReloads == 1
\* number of poll cycles the poll goroutine runs
MaxCycles == 2
\* number of segments of a term string the term functions are applied to
MaxSegments == 3
\* number of rows of a table queryBazaar is applied to
MaxTableRows == 3
\* number of calls each caller of the search dedup cache makes
MaxCalls == 2

\* ------------------------------------------------------- program constants
\* var monitorPollDelay = 600
InitialPollDelay == 600
\* if monitorPollDelay < 60 { monitorPollDelay = 60 }
MinPollDelay == 60

\* the header row written by writeSearchCSVHeader / writeMonitorCSVHeader
Header == << <<"QueryID">>, <<"Item">>, <<"Price">>, <<"Seller">> >>

\* ------------------------------------------------------------ the inputs
\* item names of the Monitor section and request IDs of the Queries section
Names == {"Velium Shard", "Fabled Earthshaker"}
SearchIDs == {"q1", "q2"}

\* raw term strings
EmptyText == << >>
ContentA == <<"/", "Name", "|", "Fabled", " ", "Earthshaker">>
ContentB ==
    <<"/", "Name", "|", "Velium", " ", "Shard", "/", "Price", "|", "100",
      "/", "Stat", "|", "ac">>
TermsA == <<"Price", "|", "1000", "/", "Compare", "|", "<">>
TermsB == <<"Compare", "|", ">", "/", "Price", "|", "500">>

\* raw values of the key 'Monitor Server Poll (seconds)'
PollRaws == { <<"3", "0">>, <<"a", "b", "c">> }

\* the Monitor sections a configuration file may hold: keys in file order
MonitorSections ==
    { << <<"Velium Shard", TermsA>> >>,
      << <<"Velium Shard", TermsB>>, <<"Fabled Earthshaker", TermsA>> >> }

\* the Queries sections a configuration file may hold: keys in file order
QueriesSections ==
    { << <<"q1", ContentA>>, <<"q2", EmptyText>> >>,
      << <<"q1", ContentB>>, <<"q2", ContentA>> >> }

\* what cfg.GetSection("General") and GetKey find: no section, no key, or
\* the raw value of the key
GeneralSections ==
    { [hasGeneral |-> FALSE, hasPollKey |-> FALSE, pollRaw |-> EmptyText],
      [hasGeneral |-> TRUE,  hasPollKey |-> FALSE, pollRaw |-> EmptyText] }
    \cup [hasGeneral : {TRUE}, hasPollKey : {TRUE}, pollRaw : PollRaws]

\* what cfg.GetSection("Monitor") finds
MonitorChoices ==
    { [has |-> FALSE, keys |-> << >>] }
    \cup [has : {TRUE}, keys : MonitorSections]

\* what cfg.GetSection("Queries") finds
QueriesChoices ==
    { [has |-> FALSE, keys |-> << >>] }
    \cup [has : {TRUE}, keys : QueriesSections]

\* the Monitor and Queries sections of the loaded file, as far as known
NoCfg ==
    [hasMonitor |-> FALSE, monitor |-> << >>,
     hasQueries |-> FALSE, queries |-> << >>]

\* the cells of the table rows the remote site may answer with
CellItem == <<" ", "Fabled", " ", "Earthshaker", " ">>
RowA == << CellItem, <<"70,000">>, <<"Baelish", " ">> >>
RowB == << <<"Velium", " ", "Shard">>, <<" ", " ", "500">>, <<" ">> >>

\* the answers of the remote site: trs is what the row selector yields
\* (one entry per tr, holding the texts of its td cells)
Pages ==
    { [fetchOk |-> FALSE, hasTable |-> FALSE, trs |-> << >>],
      [fetchOk |-> TRUE,  hasTable |-> FALSE, trs |-> << >>],
      [fetchOk |-> TRUE,  hasTable |-> TRUE,  trs |-> << << >> >>],
      [fetchOk |-> TRUE,  hasTable |-> TRUE,  trs |-> << RowA, << >>, RowB >>] }

\* the segments the term strings are made of: every key buildURL knows,
\* Price and Compare with every operator and one that is none, and a key
\* nothing knows
Segments ==
    { <<"Name", "|", "Fabled", " ", "Earthshaker">>,
      <<"Class", "|", "4096">>, <<"Race", "|", "32">>, <<"Stat", "|", "ac">>,
      <<"Slot", "|", "131072">>, <<"Aug", "|", "8">>, <<"Type", "|", "2">>,
      <<"PriceMin", "|", "10">>, <<"PriceMax", "|", "90">>,
      <<"Direction", "|", "1">>,
      <<"Price", "|", "1000">>, <<"Price", "|", "500">>,
      <<"Compare", "|", "<">>, <<"Compare", "|", "<", "=">>,
      <<"Compare", "|", ">">>, <<"Compare", "|", ">", "=">>,
      <<"Compare", "|", "=">>, <<"Foo", "|", "x">> }

\* the lists of segments of a term string
SegmentLists == UNION { [1..n -> Segments] : n \in 1..MaxSegments }

\* the term string of a list of segments: "seg/seg/..."
RECURSIVE JoinSegments(_)
JoinSegments(segs) ==
    IF Len(segs) = 1 THEN segs[1]
    ELSE segs[1] \o <<"/">> \o JoinSegments(Tail(segs))

\* the rows (tr) of the tables of the remote site: no cell, cells with white
\* space around and inside their texts, a cell of white space only
TableRows == { << >>, RowA, RowB, << <<" ", "x", " ">> >> }

\* the answers queryBazaar is applied to
TablePages ==
    { [fetchOk |-> FALSE, hasTable |-> FALSE, trs |-> << >>],
      [fetchOk |-> TRUE,  hasTable |-> FALSE, trs |-> << >>] }
    \cup [fetchOk : {TRUE}, hasTable : {TRUE},
          trs : UNION { [1..n -> TableRows] : n \in 0..MaxTableRows }]

\* the request IDs queryBazaar is applied to
ScrapeIDs == {"q1", "c0a1"}

\* the callers of the search dedup cache, the ID each of them puts, and the
\* contents they put
Callers == {"c1", "c2", "c3"}

CallerID(c) == CASE c = "c1" -> "q1" [] c = "c2" -> "q2" [] OTHER -> "q3"

CacheIDs == SearchIDs \cup {"q3"}

CacheContents == {ContentA, ContentB}

\* how an operation on a result file may end: "fatal" is an error of
\* os.OpenFile, ReadAll or Write, which log.Fatal answers; "lost" is an error
\* of the deferred writer.Flush of an append, which nothing reads
StoreFaults(faulty) == IF faulty THEN {"ok", "fatal"} ELSE {"ok"}

\* an append of no rows leaves the buffer of its writer empty, so its Flush
\* writes nothing and cannot fail
AppendFaults(faulty, dataRows) ==
    IF ~faulty THEN {"ok"}
    ELSE IF dataRows = << >> THEN {"ok", "fatal"}
    ELSE {"ok", "fatal", "lost"}

\* -------------------------------------------------------- pure functions
\* strings.TrimSpace
RECURSIVE TrimLeft(_)
TrimLeft(s) ==
    IF s # << >> /\ Head(s) = " " THEN TrimLeft(Tail(s)) ELSE s

RECURSIVE TrimRight(_)
TrimRight(s) ==
    IF s # << >> /\ s[Len(s)] = " " THEN TrimRight(SubSeq(s, 1, Len(s) - 1)) ELSE s

\* a TrimSpace that trims nothing
TrimSpace_None(s) == s

TrimSpace(s) == TrimRight(TrimLeft(s))

\* the value of one decimal digit, -1 for any other character
DigitVal(ch) ==
    CASE ch = "0" -> 0 [] ch = "1" -> 1 [] ch = "2" -> 2 [] ch = "3" -> 3
      [] ch = "4" -> 4 [] ch = "5" -> 5 [] ch = "6" -> 6 [] ch = "7" -> 7
      [] ch = "8" -> 8 [] ch = "9" -> 9 [] OTHER -> -1

RECURSIVE ParseDigits(_, _)
ParseDigits(s, acc) ==
    IF s = << >> THEN acc
    ELSE IF DigitVal(Head(s)) < 0 THEN -1
    ELSE ParseDigits(Tail(s), acc * 10 + DigitVal(Head(s)))

\* pollDelay.Int(): the parsed value, or 0 and an error
KeyInt(raw) ==
    IF raw # << >> /\ ParseDigits(raw, 0) >= 0
    THEN [val |-> ParseDigits(raw, 0), ok |-> TRUE]
    ELSE [val |-> 0, ok |-> FALSE]

\* hex.EncodeToString(md5.Sum([]byte(key)))
DerivedID(key) ==
    CASE key = "Velium Shard" -> "c0a1"
      [] key = "Fabled Earthshaker" -> "9f3e"
      [] OTHER -> "d41d"

\* the texts of the td cells of one tr, trimmed
RECURSIVE TrimCells(_)
TrimCells(tds) ==
    IF tds = << >> THEN << >>
    ELSE <<TrimSpace(Head(tds))>> \o TrimCells(Tail(tds))

\* queryBazaar, the loop over the table rows
RECURSIVE ScrapeRows(_, _)
ScrapeRows(queryID, trs) ==
    IF trs = << >> THEN << >>
    ELSE LET results == << <<queryID>> >> \o TrimCells(Head(trs))
         IN  IF Len(results) > 1
             THEN <<results>> \o ScrapeRows(queryID, Tail(trs))
             ELSE ScrapeRows(queryID, Tail(trs))

\* queryBazaar: the rows and whether err is nil
queryBazaar(queryID, page) ==
    IF ~page.fetchOk
    THEN [rows |-> << >>, ok |-> FALSE]
    ELSE [rows |-> ScrapeRows(queryID, page.trs), ok |-> TRUE]

\* cleanSearchCSV / cleanMonitorCSV: O_TRUNC
cleanCSV(store) == << >>

\* a header write that writes nothing
writeCSVHeader_None(store) == store

\* writeSearchCSVHeader / writeMonitorCSVHeader: O_APPEND of the header
writeCSVHeader(store) == Append(store, Header)

\* a writeSearchCSV that truncates the file and rewrites the header
writeSearchCSV_Reset(store, dataRows) == <<Header>> \o dataRows

\* a writeSearchCSV that writes the rows before the rows of earlier requests
writeSearchCSV_Front(store, dataRows) ==
    IF store = << >> THEN dataRows
    ELSE <<Head(store)>> \o dataRows \o Tail(store)

\* writeSearchCSV: O_APPEND of the rows
writeSearchCSV(store, dataRows) == store \o dataRows

\* a writeMonitorCSV that truncates the file and rewrites the header
writeMonitorCSV_Reset(store, dataRows) == <<Header>> \o dataRows

\* writeMonitorCSV: O_APPEND of the rows
writeMonitorCSV(store, dataRows) == store \o dataRows

\* a deleteFromMonitorCSV that writes only the first row back
deleteFromMonitorCSV_FirstRow(store, queryID) ==
    IF store = << >> THEN << >> ELSE <<Head(store)>>

\* a deleteFromMonitorCSV that writes every row back
deleteFromMonitorCSV_KeepAll(store, queryID) == store

\* deleteFromMonitorCSV: read all rows, write back each row whose first
\* column is not queryID
RECURSIVE deleteFromMonitorCSV(_, _)
deleteFromMonitorCSV(store, queryID) ==
    IF store = << >> THEN << >>
    ELSE IF Head(store)[1] # <<queryID>>
         THEN <<Head(store)>> \o deleteFromMonitorCSV(Tail(store), queryID)
         ELSE deleteFromMonitorCSV(Tail(store), queryID)

\* the map a Monitor section registers: later keys overwrite earlier ones
RECURSIVE SectionMap(_)
SectionMap(keys) ==
    IF keys = << >> THEN << >>
    ELSE LET k == keys[Len(keys)]
         IN  (k[1] :> k[2]) @@ SectionMap(SubSeq(keys, 1, Len(keys) - 1))

\* a getSearchQuery that never finds the ID
getSearchQuery_Miss(queries, queryID) == EmptyText

\* getSearchQuery: the cached content, "" when the ID is not in the map
getSearchQuery(queries, queryID) ==
    IF queryID \in DOMAIN queries THEN queries[queryID] ELSE EmptyText

\* an updateSearchQueries that stores nothing
updateSearchQueries_Drop(queries, queryID, search) == queries

\* updateSearchQueries: searchQueries[queryID] = search
updateSearchQueries(queries, queryID, search) ==
    (queryID :> search) @@ queries

\* updateMonitorQuery: monitorQueries[queryID] = search
updateMonitorQuery(queries, queryID, search) ==
    (queryID :> search) @@ queries

\* deleteMonitorQueries: monitorQueries = make(map[string]string)
deleteMonitorQueries(queries) == << >>

\* processMonitorFile: if monitorPollDelay < 60 { monitorPollDelay = 60 }
ClampPollDelay(delay) ==
    IF delay < MinPollDelay THEN MinPollDelay ELSE delay

\* ----------------------------------------------------------- search terms
\* the characters that are no word characters (\w)
Punct == {" ", "/", "|", "<", ">", "=", ","}

IsWord(tok) == tok \notin Punct

\* the class [\w\s\>\<=] of reSearchTerms
InValueClass(tok) == IsWord(tok) \/ tok \in {" ", "<", ">", "="}

\* the longest run of [\w\s\>\<=] a text starts with
RECURSIVE ValueRun(_)
ValueRun(s) ==
    IF s # << >> /\ InValueClass(Head(s))
    THEN <<Head(s)>> \o ValueRun(Tail(s))
    ELSE << >>

\* reSearchTerms.FindAllStringSubmatch(text, -1) and strings.Split(term[1],
\* "|") of each match: the matches of \w+\|[\w\s\>\<=]+ from left to right,
\* each with the "/" that follows it, as pairs of terms[0] and terms[1]
RECURSIVE FindAllTerms(_)
FindAllTerms(s) ==
    IF Len(s) < 3 THEN << >>
    ELSE IF IsWord(s[1]) /\ s[2] = "|" /\ InValueClass(s[3])
    THEN LET val == ValueRun(SubSeq(s, 3, Len(s)))
             rest == SubSeq(s, 3 + Len(val), Len(s))
             after == IF rest # << >> /\ Head(rest) = "/" THEN Tail(rest) ELSE rest
         IN  << <<s[1], val>> >> \o FindAllTerms(after)
    ELSE FindAllTerms(Tail(s))

\* processSearchQueries: searchTerms = append(searchTerms,
\* SearchTerm{Key: terms[0], Val: terms[1]}) for every match
SearchTermsOf(content) ==
    LET re == FindAllTerms(content)
    IN  [i \in 1..Len(re) |-> [Key |-> re[i][1], Val |-> re[i][2]]]

\* the characters of an item name
NameText(key) ==
    CASE key = "Velium Shard" -> <<"Velium", " ", "Shard">>
      [] key = "Fabled Earthshaker" -> <<"Fabled", " ", "Earthshaker">>
      [] OTHER -> <<key>>

\* a loop of processMonitorItems that takes an unknown operator for <
RECURSIVE MonitorLoop_Default(_, _)
MonitorLoop_Default(re, searchTerm) ==
    IF re = << >> THEN << >>
    ELSE LET k == Head(re)[1]
             v == Head(re)[2]
         IN  IF k = "Price"
             THEN LET st == [searchTerm EXCEPT !.Val = v]
                  IN  <<st>> \o MonitorLoop_Default(Tail(re), st)
             ELSE IF k = "Compare"
             THEN IF v = <<">">> \/ v = <<">", "=">>
                  THEN LET st == [searchTerm EXCEPT !.Key = "PriceMin"]
                       IN  <<st>> \o MonitorLoop_Default(Tail(re), st)
                  ELSE LET st == [searchTerm EXCEPT !.Key = "PriceMax"]
                       IN  <<st>> \o MonitorLoop_Default(Tail(re), st)
             ELSE <<searchTerm>> \o MonitorLoop_Default(Tail(re), searchTerm)

\* a loop of processMonitorItems with the bound keys of the operators
\* exchanged
RECURSIVE MonitorLoop_Swapped(_, _)
MonitorLoop_Swapped(re, searchTerm) ==
    IF re = << >> THEN << >>
    ELSE LET k == Head(re)[1]
             v == Head(re)[2]
         IN  IF k = "Price"
             THEN LET st == [searchTerm EXCEPT !.Val = v]
                  IN  <<st>> \o MonitorLoop_Swapped(Tail(re), st)
             ELSE IF k = "Compare"
             THEN IF v = <<"<">> \/ v = <<"<", "=">>
                  THEN LET st == [searchTerm EXCEPT !.Key = "PriceMin"]
                       IN  <<st>> \o MonitorLoop_Swapped(Tail(re), st)
                  ELSE IF v = <<">">> \/ v = <<">", "=">>
                  THEN LET st == [searchTerm EXCEPT !.Key = "PriceMax"]
                       IN  <<st>> \o MonitorLoop_Swapped(Tail(re), st)
                  ELSE MonitorLoop_Swapped(Tail(re), searchTerm)
             ELSE <<searchTerm>> \o MonitorLoop_Swapped(Tail(re), searchTerm)

\* processMonitorItems, the loop over the matches: Price sets the value and
\* Compare the key of the one searchTerm of the item, an unknown operator
\* skips the append, and every other pass appends searchTerm as it then is
RECURSIVE MonitorLoop(_, _)
MonitorLoop(re, searchTerm) ==
    IF re = << >> THEN << >>
    ELSE LET k == Head(re)[1]
             v == Head(re)[2]
         IN  IF k = "Price"
             THEN LET st == [searchTerm EXCEPT !.Val = v]
                  IN  <<st>> \o MonitorLoop(Tail(re), st)
             ELSE IF k = "Compare"
             THEN IF v = <<"<">> \/ v = <<"<", "=">>
                  THEN LET st == [searchTerm EXCEPT !.Key = "PriceMax"]
                       IN  <<st>> \o MonitorLoop(Tail(re), st)
                  ELSE IF v = <<">">> \/ v = <<">", "=">>
                  THEN LET st == [searchTerm EXCEPT !.Key = "PriceMin"]
                       IN  <<st>> \o MonitorLoop(Tail(re), st)
                  ELSE MonitorLoop(Tail(re), searchTerm)
             ELSE <<searchTerm>> \o MonitorLoop(Tail(re), searchTerm)

\* processMonitorItems: the search terms of one item
MonitorTermsOf(key, val) ==
    << [Key |-> "Name", Val |-> NameText(key)] >>
        \o MonitorLoop(FindAllTerms(val), [Key |-> "", Val |-> << >>])

\* url.QueryEscape, character by character
EscapeChar(tok) ==
    CASE tok = " " -> "+"
      [] tok = "<" -> "%3C"
      [] tok = ">" -> "%3E"
      [] tok = "=" -> "%3D"
      [] tok = "|" -> "%7C"
      [] tok = "/" -> "%2F"
      [] tok = "," -> "%2C"
      [] OTHER -> tok

QueryEscape(val) == [i \in 1..Len(val) |-> EscapeChar(val[i])]

\* var lazUrl = "https://www.lazaruseq.com/Magelo/index.php?page=bazaar"
BaseURL == "https://www.lazaruseq.com/Magelo/index.php?page=bazaar"

\* buildURL, the switch: the parameter of a key, "" in the default case
ParamOf(key) ==
    CASE key = "Name" -> "&item="
      [] key = "Class" -> "&class="
      [] key = "Race" -> "&race="
      [] key = "Stat" -> "&stat="
      [] key = "Slot" -> "&slot="
      [] key = "Aug" -> "&aug_type="
      [] key = "Type" -> "&type="
      [] key = "PriceMin" -> "&pricemin="
      [] key = "PriceMax" -> "&pricemax="
      [] key = "Direction" -> "&direction="
      [] OTHER -> ""

\* a loop of buildURL that appends term.Val as it is
RECURSIVE BuildLoop_NoEscape(_, _)
BuildLoop_NoEscape(lazUrl, searchTerms) ==
    IF searchTerms = << >> THEN lazUrl
    ELSE LET term == Head(searchTerms)
         IN  IF ParamOf(term.Key) = ""
             THEN BuildLoop_NoEscape(lazUrl, Tail(searchTerms))
             ELSE BuildLoop_NoEscape(lazUrl \o <<ParamOf(term.Key)>> \o term.Val,
                                     Tail(searchTerms))

\* buildURL, the loop over the terms
RECURSIVE BuildLoop(_, _)
BuildLoop(lazUrl, searchTerms) ==
    IF searchTerms = << >> THEN lazUrl
    ELSE LET term == Head(searchTerms)
         IN  IF ParamOf(term.Key) = ""
             THEN BuildLoop(lazUrl, Tail(searchTerms))
             ELSE BuildLoop(lazUrl \o <<ParamOf(term.Key)>> \o QueryEscape(term.Val),
                            Tail(searchTerms))

\* buildURL: the URL as the sequence of its pieces
buildURL(searchTerms) == BuildLoop(<<BaseURL>>, searchTerms)

\* ------------------------------------------------------------- the state
VARIABLES
    alive,              \* FALSE once log.Fatal has exited the process
    mainPc,             \* position of main()
    rlPc,               \* position of processMonitorFile / processSearchQueries
    rlEvent,            \* TRUE when the running reload serves a write event
    rlIdx,              \* index of the key the reload loop is at
    cfg,                \* the Monitor and Queries sections of the file
                        \* ini.Load read
    reloads,            \* write events handled so far
    monitorPollDelay,   \* var monitorPollDelay
    monitorQueries,     \* var monitorQueries
    searchQueries,      \* var searchQueries
    mutex,              \* holder of monitorQueriesMutex
    searchStore,        \* rows of the search results file
    monitorStore,       \* rows of the monitor results file
    pollPc,             \* position of the poll goroutine
    pollTodo,           \* keys the range loop has not yet visited
    pollKey,            \* key of the range loop
    pollRows,           \* rows of processMonitorItems
    cycles,             \* poll cycles started so far
    sleepDelay,         \* the delay of the sleep between two cycles, -1
                        \* while a cycle runs
    \* history
    searchBefore,       \* searchStore when the running reload started
    delayBefore,        \* monitorPollDelay when the running reload started
    cacheBefore,        \* searchQueries when the running reload started
    reloadRows,         \* rows the running reload wrote to the search store
    reloadQueried,      \* request IDs the running reload queried
    rlOutcome,          \* how far the running reload got
    monOld,             \* monitorQueries before deleteMonitorQueries
    sawBadDelay,        \* TRUE once a reload read a non-integer poll delay
    searchLog,          \* per request ID, the remote queries so far: how
                        \* many, how many with non-empty content, and the
                        \* content of the last one
    monBefore,          \* monitorStore before the current item was processed
    pollFetch,          \* outcome of the current item: "ok" when its rows
                        \* were scraped and written, "failed" when the fetch
                        \* failed, "lost" when the write was lost
    pollQueried,        \* keys the running cycle has queried
    pollFailed,         \* keys of the running cycle whose fetch failed
    reloadFailed,       \* request IDs of the running reload whose fetch failed
    searchAppends,      \* the calls of writeSearchCSV with rows since
                        \* cleanSearchCSV, in order: request ID, content of
                        \* the request, rows
    \* the environment
    diskFaults,         \* TRUE when operations on the result files may fail
    \* the functions applied on their own
    termKind,           \* "monitor" or "search": which loop derived termList
    termName,           \* the item name the terms were derived for
    termSegs,           \* the segments of the term string
    termText,           \* the term string the terms were derived from
    termList,           \* the search terms
    termUrl,            \* buildURL(termList)
    scrapeID,           \* the request ID queryBazaar was called with
    scrapePage,         \* the page it fetched
    scrapeRes,          \* what it returned
    \* the search dedup cache under concurrent callers
    searchQueriesMutex, \* holder of searchQueriesMutex
    callPc,             \* position of each caller
    callOp,             \* the call each caller is in
    calls,              \* calls each caller has made
    lastPut             \* per ID, the content of the last Put, if any

mainVars == <<mainPc>>

rlVars == <<rlPc, rlEvent, rlIdx, cfg, reloads>>

pollVars == <<pollPc, pollTodo, pollKey, pollRows, cycles, sleepDelay>>

\* what the reload goroutine and the poll goroutine share
sharedVars == <<monitorPollDelay, monitorQueries, mutex>>

\* what only a reload touches
searchVars == <<searchQueries, searchStore>>

rlLog == <<reloadFailed, searchAppends>>

rlHist ==
    <<searchBefore, delayBefore, cacheBefore, reloadRows, reloadQueried,
      rlOutcome, monOld, sawBadDelay, searchLog, rlLog>>

pollLog == <<pollQueried, pollFailed>>

pollHist == <<monBefore, pollFetch, pollLog>>

fnVars ==
    <<termKind, termName, termSegs, termText, termList, termUrl,
      scrapeID, scrapePage, scrapeRes>>

cacheVars == <<searchQueriesMutex, callPc, callOp, calls, lastPut>>

\* what no step of the program changes
auxVars == <<diskFaults, fnVars, cacheVars>>

vars ==
    <<alive, mainVars, rlVars, sharedVars, searchVars, monitorStore, pollVars,
      rlHist, pollHist, auxVars>>

\* the content of the last query of an ID that was never queried
NoQuery == <<"none">>

\* a call that is not being made
NoCall ==
    [kind |-> "none", id |-> "none", val |-> EmptyText, res |-> EmptyText,
     snap |-> << >>]

\* a page that was not fetched
NoPage == [fetchOk |-> FALSE, hasTable |-> FALSE, trs |-> << <<"none">> >>]

\* the result files an earlier run of the program left behind
StaleStore == <<Header, << <<"stale">>, <<"x">>, <<"1">>, <<"s">> >> >>

\* the state after construction, with a file system that works (FALSE) or
\* one whose operations may fail (TRUE)
Boot(faults) ==
    /\ diskFaults = faults
    /\ termKind = "none"
    /\ termName = "none"
    /\ termSegs = << >>
    /\ termText = << >>
    /\ termList = << >>
    /\ termUrl = << >>
    /\ scrapeID = "none"
    /\ scrapePage = NoPage
    /\ scrapeRes = [rows |-> << >>, ok |-> FALSE]
    /\ searchQueriesMutex = "none"
    /\ callPc = [c \in Callers |-> "idle"]
    /\ callOp = [c \in Callers |-> NoCall]
    /\ calls = [c \in Callers |-> 0]
    /\ lastPut = [id \in CacheIDs |-> NoQuery]
    /\ alive = TRUE
    /\ mainPc = "cleanSearch"
    /\ rlPc = "idle"
    /\ rlEvent = FALSE
    /\ rlIdx = 1
    /\ cfg = NoCfg
    /\ reloads = 0
    /\ monitorPollDelay = InitialPollDelay
    /\ monitorQueries = << >>
    /\ searchQueries = << >>
    /\ mutex = "none"
    /\ searchStore = StaleStore
    /\ monitorStore = StaleStore
    /\ pollPc = "lock"
    /\ pollTodo = {}
    /\ pollKey = "none"
    /\ pollRows = << >>
    /\ cycles = 0
    /\ sleepDelay = -1
    /\ searchBefore = << >>
    /\ delayBefore = InitialPollDelay
    /\ cacheBefore = << >>
    /\ reloadRows = << >>
    /\ reloadQueried = {}
    /\ rlOutcome = "none"
    /\ monOld = << >>
    /\ sawBadDelay = FALSE
    /\ searchLog = [id \in SearchIDs |->
                        [all |-> 0, nonEmpty |-> 0, last |-> NoQuery]]
    /\ monBefore = << >>
    /\ pollFetch = "none"
    /\ pollQueried = {}
    /\ pollFailed = {}
    /\ reloadFailed = {}
    /\ searchAppends = << >>

Init == Boot(FALSE)

\* ------------------------------------------------------------------ main
\* main: cleanSearchCSV()
CleanSearchCSV ==
    /\ alive /\ mainPc = "cleanSearch"
    /\ \E io \in StoreFaults(diskFaults) :
         IF io = "fatal"
         THEN alive' = FALSE /\ UNCHANGED <<searchStore, mainPc>>
         ELSE /\ searchStore' = cleanCSV(searchStore)
              /\ mainPc' = "cleanMonitor"
              /\ UNCHANGED alive
    /\ searchAppends' = << >>
    /\ UNCHANGED <<rlVars, sharedVars, searchQueries, monitorStore,
                   pollVars, pollHist, searchBefore, delayBefore, cacheBefore,
                   reloadRows, reloadQueried, rlOutcome, monOld, sawBadDelay,
                   searchLog, reloadFailed>>
    /\ UNCHANGED auxVars

\* main: cleanMonitorCSV()
CleanMonitorCSV ==
    /\ alive /\ mainPc = "cleanMonitor"
    /\ \E io \in StoreFaults(diskFaults) :
         IF io = "fatal"
         THEN alive' = FALSE /\ UNCHANGED <<monitorStore, mainPc>>
         ELSE /\ monitorStore' = cleanCSV(monitorStore)
              /\ mainPc' = "headerSearch"
              /\ UNCHANGED alive
    /\ UNCHANGED <<rlVars, sharedVars, searchVars,
                   pollVars, rlHist, pollHist>>
    /\ UNCHANGED auxVars

\* main: writeSearchCSVHeader()
WriteSearchCSVHeader ==
    /\ alive /\ mainPc = "headerSearch"
    /\ \E io \in StoreFaults(diskFaults) :
         IF io = "fatal"
         THEN alive' = FALSE /\ UNCHANGED <<searchStore, mainPc>>
         ELSE /\ searchStore' = writeCSVHeader(searchStore)
              /\ mainPc' = "headerMonitor"
              /\ UNCHANGED alive
    /\ UNCHANGED <<rlVars, sharedVars, searchQueries, monitorStore,
                   pollVars, rlHist, pollHist>>
    /\ UNCHANGED auxVars

\* main: writeMonitorCSVHeader()
WriteMonitorCSVHeader ==
    /\ alive /\ mainPc = "headerMonitor"
    /\ \E io \in StoreFaults(diskFaults) :
         IF io = "fatal"
         THEN alive' = FALSE /\ UNCHANGED <<monitorStore, mainPc>>
         ELSE /\ monitorStore' = writeCSVHeader(monitorStore)
              /\ mainPc' = "firstLoad"
              /\ UNCHANGED alive
    /\ UNCHANGED <<rlVars, sharedVars, searchVars,
                   pollVars, rlHist, pollHist>>
    /\ UNCHANGED auxVars

\* ---------------------------------------------------- processMonitorFile
\* The file ini.Load reads is any file: its content is drawn section by
\* section, each when the code asks for it, and a reload that returns early
\* draws the sections it never looked at as it returns.

\* a processMonitorFile that logs the read error and returns
LoadConfig_Survive(event) ==
    /\ rlPc = "idle"
    /\ rlEvent' = event
    /\ \E readable \in BOOLEAN :
         IF ~readable
         THEN /\ rlPc' = "done"
              /\ rlOutcome' = "fatal"
              /\ UNCHANGED alive
         ELSE /\ rlPc' = "general"
              /\ rlOutcome' = "loaded"
              /\ UNCHANGED alive
    /\ searchBefore' = searchStore
    /\ delayBefore' = monitorPollDelay
    /\ cacheBefore' = searchQueries
    /\ UNCHANGED <<rlIdx, cfg, sharedVars, searchVars, monitorStore, pollVars,
                   pollHist, reloadRows, reloadQueried, monOld, sawBadDelay,
                   searchLog, rlLog>>
    /\ UNCHANGED auxVars

\* the entry of processMonitorFile: ini.Load(monitorFile); log.Fatal exits
\* the process when the file cannot be read
LoadConfig(event) ==
    /\ rlPc = "idle"
    /\ rlEvent' = event
    /\ \E readable \in BOOLEAN :
         IF ~readable
         THEN /\ alive' = FALSE
              /\ rlOutcome' = "fatal"
              /\ UNCHANGED rlPc
         ELSE /\ rlPc' = "general"
              /\ rlOutcome' = "loaded"
              /\ UNCHANGED alive
    /\ searchBefore' = searchStore
    /\ delayBefore' = monitorPollDelay
    /\ cacheBefore' = searchQueries
    /\ UNCHANGED <<rlIdx, cfg, sharedVars, searchVars, monitorStore, pollVars,
                   pollHist, reloadRows, reloadQueried, monOld, sawBadDelay,
                   searchLog, rlLog>>
    /\ UNCHANGED auxVars

\* main: processMonitorFile() "for the first time", before any goroutine
FirstLoad ==
    /\ alive /\ mainPc = "firstLoad"
    /\ mainPc' = "loading"
    /\ LoadConfig(FALSE)
    /\ UNCHANGED reloads

\* the watcher goroutine: a Write event calls processMonitorFile()
WriteEvent ==
    /\ alive /\ mainPc = "running"
    /\ reloads < MaxReloads
    /\ reloads' = reloads + 1
    /\ LoadConfig(TRUE)
    /\ UNCHANGED mainPc

\* the sections of the file a returning reload did not look at
UnreadSections(readMonitor) ==
    \E m \in MonitorChoices, q \in QueriesChoices :
        cfg' = [hasMonitor |-> IF readMonitor THEN cfg.hasMonitor ELSE m.has,
                monitor    |-> IF readMonitor THEN cfg.monitor ELSE m.keys,
                hasQueries |-> q.has,
                queries    |-> q.keys]

\* cfg.GetSection("General"), generalSection.GetKey(...) and
\* monitorPollDelay, err = pollDelay.Int(): return when the section is
\* missing; the global is assigned before err is looked at
GetPollDelay ==
    /\ alive /\ rlPc = "general"
    /\ \E g \in GeneralSections :
         IF ~g.hasGeneral
         THEN /\ rlPc' = "done"
              /\ rlOutcome' = "noGeneral"
              /\ UnreadSections(FALSE)
              /\ UNCHANGED <<monitorPollDelay, sawBadDelay>>
         ELSE IF ~g.hasPollKey
         THEN /\ rlPc' = "monitorSection"
              /\ UNCHANGED <<monitorPollDelay, rlOutcome, sawBadDelay, cfg>>
         ELSE /\ monitorPollDelay' = KeyInt(g.pollRaw).val
              /\ IF KeyInt(g.pollRaw).ok
                 THEN /\ rlPc' = "clamp"
                      /\ UNCHANGED <<rlOutcome, sawBadDelay, cfg>>
                 ELSE /\ rlPc' = "done"
                      /\ rlOutcome' = "badDelay"
                      /\ sawBadDelay' = TRUE
                      /\ UnreadSections(FALSE)
    /\ UNCHANGED <<alive, mainVars, rlEvent, rlIdx, reloads,
                   monitorQueries, mutex, searchVars, monitorStore, pollVars,
                   pollHist, searchBefore, delayBefore, cacheBefore,
                   reloadRows, reloadQueried, monOld, searchLog, rlLog>>
    /\ UNCHANGED auxVars

\* if monitorPollDelay < 60 { monitorPollDelay = 60 }
ClampDelay ==
    /\ alive /\ rlPc = "clamp"
    /\ monitorPollDelay' = ClampPollDelay(monitorPollDelay)
    /\ rlPc' = "monitorSection"
    /\ UNCHANGED <<alive, mainVars, rlEvent, rlIdx, cfg, reloads,
                   monitorQueries, mutex, searchVars, monitorStore, pollVars,
                   pollHist, rlHist>>
    /\ UNCHANGED auxVars

\* cfg.GetSection("Monitor"): return when the section is missing; else
\* deleteMonitorQueries(), which takes and releases monitorQueriesMutex
DeleteMonitorQueries ==
    /\ alive /\ rlPc = "monitorSection"
    /\ \E m \in MonitorChoices :
         IF ~m.has
         THEN /\ rlPc' = "done"
              /\ rlOutcome' = "noMonitor"
              /\ UnreadSections(TRUE)
              /\ UNCHANGED <<monitorQueries, monOld, rlIdx>>
         ELSE /\ mutex = "none"
              /\ cfg' = [cfg EXCEPT !.hasMonitor = TRUE, !.monitor = m.keys]
              /\ monOld' = monitorQueries
              /\ monitorQueries' = deleteMonitorQueries(monitorQueries)
              /\ rlIdx' = 1
              /\ rlPc' = "update"
              /\ UNCHANGED rlOutcome
    /\ UNCHANGED <<alive, mainVars, rlEvent, reloads,
                   monitorPollDelay, mutex, searchVars, monitorStore,
                   pollVars, pollHist, searchBefore, delayBefore, cacheBefore,
                   reloadRows, reloadQueried, sawBadDelay, searchLog, rlLog>>
    /\ UNCHANGED auxVars

\* updateMonitorQuery(key.Name(), key.Value()) for the next key of the
\* section: takes and releases monitorQueriesMutex
UpdateMonitorQuery ==
    /\ alive /\ rlPc = "update"
    /\ rlIdx <= Len(cfg.monitor)
    /\ mutex = "none"
    /\ monitorQueries' = updateMonitorQuery(monitorQueries,
                             cfg.monitor[rlIdx][1], cfg.monitor[rlIdx][2])
    /\ rlIdx' = rlIdx + 1
    /\ UNCHANGED <<alive, mainVars, rlPc, rlEvent, cfg, reloads,
                   monitorPollDelay, mutex, searchVars, monitorStore,
                   pollVars, pollHist, rlHist>>
    /\ UNCHANGED auxVars

\* cfg.GetSection("Queries") after the last key of the Monitor section:
\* return when the section is missing
GetQueriesSection ==
    /\ alive /\ rlPc = "update"
    /\ rlIdx > Len(cfg.monitor)
    /\ rlIdx' = 1
    /\ \E q \in QueriesChoices :
         /\ cfg' = [cfg EXCEPT !.hasQueries = q.has, !.queries = q.keys]
         /\ IF q.has
            THEN rlPc' = "search" /\ UNCHANGED rlOutcome
            ELSE rlPc' = "done" /\ rlOutcome' = "noQueries"
    /\ UNCHANGED <<alive, mainVars, rlEvent, reloads, sharedVars,
                   searchVars, monitorStore, pollVars, pollHist,
                   searchBefore, delayBefore, cacheBefore, reloadRows,
                   reloadQueried, monOld, sawBadDelay, searchLog, rlLog>>
    /\ UNCHANGED auxVars

\* -------------------------------------------------- processSearchQueries
\* a SearchNext that queries every key, marked or not
SearchNext_NoSkip ==
    /\ alive /\ rlPc = "search"
    /\ IF rlIdx > Len(cfg.queries)
       THEN /\ rlPc' = "done"
            /\ rlOutcome' = "complete"
            /\ UNCHANGED <<rlIdx, searchQueries>>
       ELSE /\ searchQueries' = updateSearchQueries(searchQueries,
                                    cfg.queries[rlIdx][1], cfg.queries[rlIdx][2])
            /\ rlPc' = "query"
            /\ UNCHANGED <<rlIdx, rlOutcome>>
    /\ UNCHANGED <<alive, mainVars, rlEvent, cfg, reloads, sharedVars,
                   searchStore, monitorStore, pollVars, pollHist,
                   searchBefore, delayBefore, cacheBefore, reloadRows,
                   reloadQueried, monOld, sawBadDelay, searchLog, rlLog>>
    /\ UNCHANGED auxVars

\* a SearchNext that marks an unmarked ID and goes on to the next key
\* without querying
SearchNext_MarkOnly ==
    /\ alive /\ rlPc = "search"
    /\ IF rlIdx > Len(cfg.queries)
       THEN /\ rlPc' = "done"
            /\ rlOutcome' = "complete"
            /\ UNCHANGED <<rlIdx, searchQueries>>
       ELSE IF getSearchQuery(searchQueries, cfg.queries[rlIdx][1]) # EmptyText
       THEN /\ rlIdx' = rlIdx + 1
            /\ UNCHANGED <<rlPc, rlOutcome, searchQueries>>
       ELSE /\ searchQueries' = updateSearchQueries(searchQueries,
                                    cfg.queries[rlIdx][1], cfg.queries[rlIdx][2])
            /\ rlIdx' = rlIdx + 1
            /\ UNCHANGED <<rlPc, rlOutcome>>
    /\ UNCHANGED <<alive, mainVars, rlEvent, cfg, reloads, sharedVars,
                   searchStore, monitorStore, pollVars, pollHist,
                   searchBefore, delayBefore, cacheBefore, reloadRows,
                   reloadQueried, monOld, sawBadDelay, searchLog, rlLog>>
    /\ UNCHANGED auxVars

\* the head of the loop: the end of the keys, or getSearchQuery and the
\* skip of an ID that is already in the map, or updateSearchQueries
SearchNext ==
    /\ alive /\ rlPc = "search"
    /\ IF rlIdx > Len(cfg.queries)
       THEN /\ rlPc' = "done"
            /\ rlOutcome' = "complete"
            /\ UNCHANGED <<rlIdx, searchQueries>>
       ELSE IF getSearchQuery(searchQueries, cfg.queries[rlIdx][1]) # EmptyText
       THEN /\ rlIdx' = rlIdx + 1
            /\ UNCHANGED <<rlPc, rlOutcome, searchQueries>>
       ELSE /\ searchQueries' = updateSearchQueries(searchQueries,
                                    cfg.queries[rlIdx][1], cfg.queries[rlIdx][2])
            /\ rlPc' = "query"
            /\ UNCHANGED <<rlIdx, rlOutcome>>
    /\ UNCHANGED <<alive, mainVars, rlEvent, cfg, reloads, sharedVars,
                   searchStore, monitorStore, pollVars, pollHist,
                   searchBefore, delayBefore, cacheBefore, reloadRows,
                   reloadQueried, monOld, sawBadDelay, searchLog, rlLog>>
    /\ UNCHANGED auxVars

\* the search terms of key.Value(), queryBazaar(key.Name(), searchTerms):
\* continue when it fails, else writeSearchCSV(rows)
SearchQuery ==
    /\ alive /\ rlPc = "query"
    /\ \E page \in Pages :
         LET res == queryBazaar(cfg.queries[rlIdx][1], page)
         IN  IF ~res.ok
             THEN /\ reloadFailed' = reloadFailed \cup {cfg.queries[rlIdx][1]}
                  /\ rlIdx' = rlIdx + 1
                  /\ rlPc' = "search"
                  /\ UNCHANGED <<alive, searchStore, reloadRows,
                                 searchAppends>>
             ELSE \E io \in AppendFaults(diskFaults, res.rows) :
                  /\ UNCHANGED reloadFailed
                  /\ IF io = "fatal"
                     THEN /\ alive' = FALSE
                          /\ UNCHANGED <<searchStore, reloadRows, rlIdx, rlPc,
                                         searchAppends>>
                     ELSE /\ IF io = "ok"
                             THEN /\ searchStore' =
                                       writeSearchCSV(searchStore, res.rows)
                                  /\ reloadRows' = reloadRows \o res.rows
                                  /\ searchAppends' =
                                       IF res.rows = << >> THEN searchAppends
                                       ELSE Append(searchAppends,
                                              [id |-> cfg.queries[rlIdx][1],
                                               content |-> cfg.queries[rlIdx][2],
                                               rows |-> res.rows])
                             ELSE UNCHANGED <<searchStore, reloadRows,
                                              searchAppends>>
                          /\ rlIdx' = rlIdx + 1
                          /\ rlPc' = "search"
                          /\ UNCHANGED alive
    /\ searchLog' =
         [searchLog EXCEPT ![cfg.queries[rlIdx][1]] =
            [all |-> @.all + 1,
             nonEmpty |-> @.nonEmpty +
                 (IF cfg.queries[rlIdx][2] # EmptyText THEN 1 ELSE 0),
             last |-> cfg.queries[rlIdx][2]]]
    /\ reloadQueried' = reloadQueried \cup {cfg.queries[rlIdx][1]}
    /\ UNCHANGED <<mainVars, rlEvent, cfg, reloads, sharedVars,
                   searchQueries, monitorStore, pollVars, pollHist,
                   searchBefore, delayBefore, cacheBefore,
                   rlOutcome, monOld, sawBadDelay>>
    /\ UNCHANGED auxVars

\* a processMonitorFile that resets the monitor store as it returns
ReloadReturn_Reset ==
    /\ alive /\ rlPc = "done"
    /\ rlPc' = "idle"
    /\ rlIdx' = 1
    /\ cfg' = NoCfg
    /\ mainPc' = IF rlEvent THEN mainPc ELSE "running"
    /\ rlOutcome' = "none"
    /\ reloadRows' = << >>
    /\ reloadQueried' = {}
    /\ monOld' = << >>
    /\ searchBefore' = << >>
    /\ cacheBefore' = << >>
    /\ delayBefore' = InitialPollDelay
    /\ reloadFailed' = {}
    /\ monitorStore' = <<Header>>
    /\ UNCHANGED <<alive, rlEvent, reloads, sharedVars, searchVars,
                   pollVars, pollHist, sawBadDelay, searchLog,
                   searchAppends>>
    /\ UNCHANGED auxVars

\* processMonitorFile returns: main goes on to start the goroutines, the
\* watcher goroutine goes back to its select
ReloadReturn ==
    /\ alive /\ rlPc = "done"
    /\ rlPc' = "idle"
    /\ rlIdx' = 1
    /\ cfg' = NoCfg
    /\ mainPc' = IF rlEvent THEN mainPc ELSE "running"
    /\ rlOutcome' = "none"
    /\ reloadRows' = << >>
    /\ reloadQueried' = {}
    /\ monOld' = << >>
    /\ searchBefore' = << >>
    /\ cacheBefore' = << >>
    /\ delayBefore' = InitialPollDelay
    /\ reloadFailed' = {}
    /\ UNCHANGED <<alive, rlEvent, reloads, sharedVars, searchVars,
                   monitorStore, pollVars, pollHist, sawBadDelay, searchLog,
                   searchAppends>>
    /\ UNCHANGED auxVars

\* --------------------------------------------------- the poll goroutine
\* a processMonitorItems that starts its range without taking the mutex
PollLock_NoMutex ==
    /\ alive /\ mainPc = "running" /\ pollPc = "lock"
    /\ cycles < MaxCycles
    /\ mutex = "none"
    /\ mutex' = mutex
    /\ cycles' = cycles + 1
    /\ pollTodo' = DOMAIN monitorQueries
    /\ pollPc' = "iter"
    /\ sleepDelay' = -1
    /\ UNCHANGED <<alive, mainVars, rlVars, monitorPollDelay, monitorQueries,
                   searchVars, monitorStore, pollKey, pollRows,
                   rlHist, pollHist>>
    /\ UNCHANGED auxVars

\* processMonitorItems: monitorQueriesMutex.Lock() and the start of the
\* range over monitorQueries
PollLock ==
    /\ alive /\ mainPc = "running" /\ pollPc = "lock"
    /\ cycles < MaxCycles
    /\ mutex = "none"
    /\ mutex' = "poll"
    /\ cycles' = cycles + 1
    /\ pollTodo' = DOMAIN monitorQueries
    /\ pollPc' = "iter"
    /\ sleepDelay' = -1
    /\ UNCHANGED <<alive, mainVars, rlVars, monitorPollDelay, monitorQueries,
                   searchVars, monitorStore, pollKey, pollRows,
                   rlHist, pollHist>>
    /\ UNCHANGED auxVars

\* the range loop takes its next key, in the order the map yields, derives
\* the search terms of the item and calls deleteFromMonitorCSV(hexHash)
PollDelete ==
    /\ alive /\ pollPc = "iter"
    /\ pollTodo # {}
    /\ \E key \in pollTodo, io \in StoreFaults(diskFaults) :
         IF io = "fatal"
         THEN /\ alive' = FALSE
              /\ UNCHANGED <<pollKey, pollTodo, monitorStore, pollRows, pollPc,
                             pollHist>>
         ELSE /\ pollKey' = key
              /\ pollTodo' = pollTodo \ {key}
              /\ monitorStore' =
                   deleteFromMonitorCSV(monitorStore, DerivedID(key))
              /\ pollRows' = << >>
              /\ pollFetch' = "none"
              /\ monBefore' = monitorStore
              /\ pollPc' = "query"
              /\ UNCHANGED <<alive, pollQueried, pollFailed>>
    /\ UNCHANGED <<mainVars, rlVars, sharedVars, searchVars, cycles,
                   sleepDelay, rlHist>>
    /\ UNCHANGED auxVars

\* PollQuery with a break in the place of the continue of a failed fetch
PollQuery_Abort ==
    /\ alive /\ pollPc = "query"
    /\ \E page \in Pages :
         LET res == queryBazaar(DerivedID(pollKey), page)
         IN  IF ~res.ok
             THEN /\ pollFetch' = "failed"
                  /\ pollFailed' = pollFailed \cup {pollKey}
                  /\ pollPc' = "iter"
                  /\ pollTodo' = {}
                  /\ UNCHANGED <<alive, pollRows, monitorStore>>
             ELSE /\ pollRows' = res.rows
                  /\ monitorStore' = writeMonitorCSV(monitorStore, res.rows)
                  /\ pollFetch' = "ok"
                  /\ pollPc' = "iter"
                  /\ UNCHANGED <<alive, pollFailed, pollTodo>>
    /\ pollQueried' = pollQueried \cup {pollKey}
    /\ UNCHANGED <<mainVars, rlVars, sharedVars, searchVars,
                   pollKey, cycles, sleepDelay, rlHist, monBefore>>
    /\ UNCHANGED auxVars

\* queryBazaar(hexHash, searchTerms): continue when it fails, else
\* writeMonitorCSV(rows) and time.Sleep(3 seconds)
PollQuery ==
    /\ alive /\ pollPc = "query"
    /\ \E page \in Pages :
         LET res == queryBazaar(DerivedID(pollKey), page)
         IN  IF ~res.ok
             THEN /\ pollFetch' = "failed"
                  /\ pollFailed' = pollFailed \cup {pollKey}
                  /\ pollPc' = "iter"
                  /\ UNCHANGED <<alive, pollRows, monitorStore>>
             ELSE \E io \in AppendFaults(diskFaults, res.rows) :
                  /\ pollRows' = res.rows
                  /\ UNCHANGED pollFailed
                  /\ IF io = "fatal"
                     THEN /\ alive' = FALSE
                          /\ UNCHANGED <<monitorStore, pollFetch, pollPc>>
                     ELSE /\ IF io = "ok"
                             THEN /\ monitorStore' =
                                       writeMonitorCSV(monitorStore, res.rows)
                                  /\ pollFetch' = "ok"
                             ELSE /\ pollFetch' = "lost"
                                  /\ UNCHANGED monitorStore
                          /\ pollPc' = "iter"
                          /\ UNCHANGED alive
    /\ pollQueried' = pollQueried \cup {pollKey}
    /\ UNCHANGED <<mainVars, rlVars, sharedVars, searchVars, pollTodo,
                   pollKey, cycles, sleepDelay, rlHist, monBefore>>
    /\ UNCHANGED auxVars

\* the range is over: the deferred monitorQueriesMutex.Unlock()
PollUnlock ==
    /\ alive /\ pollPc = "iter"
    /\ pollTodo = {}
    /\ mutex' = "none"
    /\ pollPc' = "sleep"
    /\ pollKey' = "none"
    /\ pollRows' = << >>
    /\ pollFetch' = "none"
    /\ monBefore' = << >>
    /\ pollQueried' = {}
    /\ pollFailed' = {}
    /\ UNCHANGED <<alive, mainVars, rlVars, monitorPollDelay, monitorQueries,
                   searchVars, monitorStore, pollTodo, cycles, sleepDelay,
                   rlHist>>
    /\ UNCHANGED auxVars

\* time.Sleep(time.Duration(monitorPollDelay) * time.Second): an
\* unsynchronised read of the global
PollSleep ==
    /\ alive /\ pollPc = "sleep"
    /\ sleepDelay' = monitorPollDelay
    /\ pollPc' = "lock"
    /\ UNCHANGED <<alive, mainVars, rlVars, sharedVars, searchVars,
                   monitorStore, pollTodo, pollKey, pollRows, cycles, rlHist,
                   pollHist>>
    /\ UNCHANGED auxVars

\* ------------------------------------------------------ the specification
Next ==
    \/ CleanSearchCSV
    \/ CleanMonitorCSV
    \/ WriteSearchCSVHeader
    \/ WriteMonitorCSVHeader
    \/ FirstLoad
    \/ WriteEvent
    \/ GetPollDelay
    \/ ClampDelay
    \/ DeleteMonitorQueries
    \/ UpdateMonitorQuery
    \/ GetQueriesSection
    \/ SearchNext
    \/ SearchQuery
    \/ ReloadReturn
    \/ PollLock
    \/ PollDelete
    \/ PollQuery
    \/ PollUnlock
    \/ PollSleep

Spec == Init /\ [][Next]_vars

\* the program on a file system whose operations may fail
FaultSpec == Boot(TRUE) /\ [][Next]_vars

\* ------------------------------------------- the functions on their own
\* the variables of the program
programVars ==
    <<alive, mainVars, rlVars, sharedVars, searchVars, monitorStore, pollVars,
      rlHist, pollHist, diskFaults>>

\* no function has been applied yet
FnIdle == termKind = "none" /\ scrapeID = "none"

\* processMonitorItems derives the search terms of an item and queryBazaar
\* builds the URL of its query
MonitorItemTerms ==
    /\ FnIdle
    /\ \E key \in Names, segs \in SegmentLists :
         LET val == JoinSegments(segs)
             searchTerms == MonitorTermsOf(key, val)
         IN  /\ termKind' = "monitor"
             /\ termName' = key
             /\ termSegs' = segs
             /\ termText' = val
             /\ termList' = searchTerms
             /\ termUrl' = buildURL(searchTerms)
    /\ UNCHANGED <<scrapeID, scrapePage, scrapeRes, programVars, cacheVars>>

\* processSearchQueries parses the search terms of a request and queryBazaar
\* builds the URL of its query
SearchRequestTerms ==
    /\ FnIdle
    /\ \E segs \in SegmentLists :
         LET val == <<"/">> \o JoinSegments(segs)
             searchTerms == SearchTermsOf(val)
         IN  /\ termKind' = "search"
             /\ termName' = "none"
             /\ termSegs' = segs
             /\ termText' = val
             /\ termList' = searchTerms
             /\ termUrl' = buildURL(searchTerms)
    /\ UNCHANGED <<scrapeID, scrapePage, scrapeRes, programVars, cacheVars>>

\* queryBazaar fetches a page and scrapes it
ScrapePage ==
    /\ FnIdle
    /\ \E id \in ScrapeIDs, page \in TablePages :
         /\ scrapeID' = id
         /\ scrapePage' = page
         /\ scrapeRes' = queryBazaar(id, page)
    /\ UNCHANGED <<termKind, termName, termSegs, termText, termList, termUrl,
                   programVars, cacheVars>>

FnNext ==
    \/ MonitorItemTerms
    \/ SearchRequestTerms
    \/ ScrapePage

FnSpec == Init /\ [][FnNext]_vars

\* ------------------------------ the search dedup cache under its callers
\* what a caller of the cache does not touch
cacheFrame ==
    <<alive, mainVars, rlVars, sharedVars, searchStore, monitorStore, pollVars,
      rlHist, pollHist, diskFaults, fnVars>>

\* a Lock() that excludes nobody
CallLock_NoExclusion(c) ==
    /\ callPc[c] = "idle"
    /\ calls[c] < MaxCalls
    /\ searchQueriesMutex' = c
    /\ callPc' = [callPc EXCEPT ![c] = "locked"]
    /\ calls' = [calls EXCEPT ![c] = @ + 1]
    /\ \E op \in [kind : {"put"}, id : {CallerID(c)}, val : CacheContents,
                   res : {EmptyText}, snap : {<< >>}]
                 \cup [kind : {"get"}, id : CacheIDs, val : {EmptyText},
                       res : {EmptyText}, snap : {<< >>}] :
         callOp' = [callOp EXCEPT ![c] = op]
    /\ UNCHANGED <<searchQueries, lastPut, cacheFrame>>

\* getSearchQuery / updateSearchQueries: searchQueriesMutex.Lock(); a
\* caller puts its own ID and gets any ID
CallLock(c) ==
    /\ callPc[c] = "idle"
    /\ calls[c] < MaxCalls
    /\ searchQueriesMutex = "none"
    /\ searchQueriesMutex' = c
    /\ callPc' = [callPc EXCEPT ![c] = "locked"]
    /\ calls' = [calls EXCEPT ![c] = @ + 1]
    /\ \E op \in [kind : {"put"}, id : {CallerID(c)}, val : CacheContents,
                   res : {EmptyText}, snap : {<< >>}]
                 \cup [kind : {"get"}, id : CacheIDs, val : {EmptyText},
                       res : {EmptyText}, snap : {<< >>}] :
         callOp' = [callOp EXCEPT ![c] = op]
    /\ UNCHANGED <<searchQueries, lastPut, cacheFrame>>

\* the access to the map is not one step of the machine: it starts from the
\* map as it is ...
CallLoad(c) ==
    /\ callPc[c] = "locked"
    /\ callPc' = [callPc EXCEPT ![c] = "loaded"]
    /\ callOp' = [callOp EXCEPT ![c].snap = searchQueries]
    /\ UNCHANGED <<searchQueries, searchQueriesMutex, calls, lastPut,
                   cacheFrame>>

\* ... and ends with searchQueries[queryID] = search, or with the result of
\* the lookup
CallBody(c) ==
    /\ callPc[c] = "loaded"
    /\ callPc' = [callPc EXCEPT ![c] = "done"]
    /\ IF callOp[c].kind = "put"
       THEN /\ searchQueries' =
                 updateSearchQueries(callOp[c].snap, callOp[c].id, callOp[c].val)
            /\ lastPut' = [lastPut EXCEPT ![callOp[c].id] = callOp[c].val]
            /\ UNCHANGED callOp
       ELSE /\ callOp' = [callOp EXCEPT
                             ![c].res = getSearchQuery(callOp[c].snap, callOp[c].id)]
            /\ UNCHANGED <<searchQueries, lastPut>>
    /\ UNCHANGED <<searchQueriesMutex, calls, cacheFrame>>

\* the deferred searchQueriesMutex.Unlock()
CallUnlock(c) ==
    /\ callPc[c] = "done"
    /\ callPc' = [callPc EXCEPT ![c] = "idle"]
    /\ callOp' = [callOp EXCEPT ![c] = NoCall]
    /\ searchQueriesMutex' = "none"
    /\ UNCHANGED <<searchQueries, calls, lastPut, cacheFrame>>

CacheNext ==
    \E c \in Callers :
        \/ CallLock(c)
        \/ CallLoad(c)
        \/ CallBody(c)
        \/ CallUnlock(c)

CacheSpec == Init /\ [][CacheNext]_vars

TypeOK ==
    /\ alive \in BOOLEAN
    /\ mutex \in {"none", "poll"}
    /\ monitorPollDelay \in Int
    /\ DOMAIN monitorQueries \subseteq Names
    /\ DOMAIN searchQueries \subseteq CacheIDs
    /\ cycles \in 0..MaxCycles
    /\ reloads \in 0..MaxReloads

\* ------------------------------------------------------------ the claims
\* the rows of a store whose first column is the ID, and the other rows
RowsOf(store, id) == SelectSeq(store, LAMBDA row : row[1] = <<id>>)

OtherRows(store, id) == SelectSeq(store, LAMBDA row : row[1] # <<id>>)

\* the map of the Monitor section of the loaded file
ConfigMonitorMap ==
    IF cfg.hasMonitor THEN SectionMap(cfg.monitor) ELSE << >>

\* the request IDs of the Queries section of the loaded file
ConfigQueries ==
    IF cfg.hasQueries THEN { cfg.queries[i] : i \in 1..Len(cfg.queries) } ELSE {}

C2_FailedFetchKeepsRows ==
    (pollPc = "iter" /\ pollFetch = "failed") =>
        RowsOf(monitorStore, DerivedID(pollKey)) =
            RowsOf(monBefore, DerivedID(pollKey))

\* C3: when an item has been processed with a successful scrape, the rows
\* of the monitor store that carry its derived ID are the rows of that
\* scrape, and the header and the rows of every other ID are what they
\* were before the item was processed, in the same order.
C3_InvalidateThenAppend ==
    (pollPc = "iter" /\ pollFetch = "ok") =>
        /\ RowsOf(monitorStore, DerivedID(pollKey)) = pollRows
        /\ OtherRows(monitorStore, DerivedID(pollKey)) =
               OtherRows(monBefore, DerivedID(pollKey))
        /\ Head(monitorStore) = Header

C3_Witness ==
    /\ pollPc = "iter" /\ pollFetch = "ok"
    /\ pollRows # << >>
    /\ RowsOf(monBefore, DerivedID(pollKey)) # << >>
    /\ Len(OtherRows(monBefore, DerivedID(pollKey))) > 1

C5_PollSeesCompleteSet ==
    (mutex = "poll" /\ rlPc = "update") =>
        monitorQueries \in {monOld, ConfigMonitorMap}

\* C6: as long as every poll delay the reloads read was an integer or
\* absent, the delay the poll loop sleeps for is at least the floor.
C6_SleepNeverBelowFloor ==
    (pollPc = "lock" /\ sleepDelay # -1 /\ ~sawBadDelay) =>
        sleepDelay >= MinPollDelay

\* C7: when a reload that serves a write event and read a non-integer poll
\* delay has returned, the poll delay is its value of before the reload or
\* the floor.
C7_BadDelayKeepsOrFloors ==
    (rlPc = "done" /\ rlEvent /\ rlOutcome = "badDelay") =>
        monitorPollDelay \in {delayBefore, MinPollDelay}

\* C8, as stated: a reload that serves a write event and cannot read the
\* configuration file leaves the process running.
C8_UnreadableKeepsRunning ==
    (rlOutcome = "fatal" /\ rlEvent) => alive

\* C8, amended: a reload that cannot read the configuration file ends the
\* process: the step that fails, and every step after it, leaves the monitor
\* set, the search dedup cache, the poll delay and both stores unchanged, and
\* the process is not running afterwards, so no later write event or poll
\* tick is served.
C8_UnreadableIsFatal ==
    [][ rlOutcome' = "fatal" =>
          /\ ~alive'
          /\ UNCHANGED <<monitorQueries, searchQueries, monitorPollDelay,
                         searchStore, monitorStore>> ]_vars

C8_Witness ==
    /\ rlOutcome = "fatal" /\ ~alive /\ rlEvent
    /\ DOMAIN monitorQueries # {}
    /\ Len(searchStore) > 1
    /\ pollPc = "query"

\* C9: when a reload that serves a write event and read the configuration
\* file has returned, it has queried every request of the Queries section
\* whose ID was not marked in the search dedup cache.
C9_ReloadQueriesUnmarked ==
    (rlPc = "done" /\ rlEvent) =>
        \A q \in ConfigQueries :
            getSearchQuery(cacheBefore, q[1]) = EmptyText
                => q[1] \in reloadQueried

\* C10: when a reload that serves a write event and read the configuration
\* file has returned, the registered monitor set is the map of the Monitor
\* section of that file.
C10_MonitorSetIsConfig ==
    (rlPc = "done" /\ rlEvent) => monitorQueries = ConfigMonitorMap

\* C11: neither trigger blocks the other. A reload that serves a write event
\* while a poll cycle is in progress can take its next step on the monitor
\* set (clear it, register the next item of the Monitor section) without
\* waiting for the cycle to end.
C11_ReloadNotBlockedByPoll ==
    (alive /\ rlEvent /\ mutex = "poll") =>
        /\ rlPc = "monitorSection" =>
              ENABLED (DeleteMonitorQueries /\ rlPc' = "update")
        /\ (rlPc = "update" /\ rlIdx <= Len(cfg.monitor)) =>
              ENABLED UpdateMonitorQuery

\* the last n rows of a store
LastRows(storeRows, n) ==
    SubSeq(storeRows, Len(storeRows) - n + 1, Len(storeRows))

\* C12: a failed fetch never aborts its batch. In a poll cycle every item
\* the range has passed was queried, whatever fetches failed before it, and
\* the rows of a fetch that succeeded are the last rows of the monitor
\* store; in a reload every request the loop has passed and found unmarked
\* was queried, and the rows of the fetches that succeeded are the last rows
\* of the search store.
C12_FailedFetchKeepsBatch ==
    /\ (mutex = "poll" /\ pollPc = "iter") =>
          /\ pollQueried = DOMAIN monitorQueries \ pollTodo
          /\ pollFailed \subseteq pollQueried
          /\ pollFetch = "ok" =>
                LastRows(monitorStore, Len(pollRows)) = pollRows
    /\ rlPc \in {"search", "done"} =>
          /\ \A i \in 1..Len(cfg.queries) :
                (i < rlIdx \/ rlOutcome = "complete") =>
                    (getSearchQuery(cacheBefore, cfg.queries[i][1]) = EmptyText
                        => cfg.queries[i][1] \in reloadQueried)
          /\ reloadFailed \subseteq reloadQueried
          /\ LastRows(searchStore, Len(reloadRows)) = reloadRows

\* a poll cycle whose first fetch failed and whose second one succeeded and
\* wrote its rows, while a reload whose first fetch failed has queried its
\* second request and written its rows
C12_Witness ==
    /\ alive /\ mutex = "poll" /\ pollPc = "iter" /\ pollTodo = {}
    /\ pollFailed # {} /\ pollKey \notin pollFailed
    /\ pollFetch = "ok" /\ pollRows # << >>
    /\ rlPc = "search" /\ rlIdx > 2
    /\ cfg.queries[1][1] \in reloadFailed
    /\ cfg.queries[2][1] \in reloadQueried \ reloadFailed
    /\ reloadRows # << >>

\* C13: queryBazaar returns an error whenever the fetch fails or the fetched
\* page does not hold the results table, and an empty row set with no error
\* only when the table is there and has no populated row.
C13_MissingTableIsError ==
    scrapeID # "none" =>
        /\ scrapeRes.ok <=> (scrapePage.fetchOk /\ scrapePage.hasTable)
        /\ (scrapeRes.ok /\ scrapeRes.rows = << >>) => scrapePage.hasTable

\* what Get returns for an ID after the Puts made so far
Expected(id) == IF lastPut[id] = NoQuery THEN EmptyText ELSE lastPut[id]

\* C14: the search dedup cache under concurrent callers. Get on an ID never
\* written gives the empty string, Get after a Put gives the content of the
\* last Put to that ID, and every ID that was put by some caller is in the
\* map, whatever the interleaving of the callers.
C14_CacheKeepsEveryPut ==
    /\ \A id \in CacheIDs :
          /\ getSearchQuery(searchQueries, id) = Expected(id)
          /\ lastPut[id] # NoQuery => id \in DOMAIN searchQueries
    /\ \A c \in Callers :
          (callPc[c] = "done" /\ callOp[c].kind = "get") =>
              callOp[c].res = Expected(callOp[c].id)

\* the three callers have put their IDs, with different contents, two of
\* them have made their second call, and a Get of another caller's ID has
\* returned its content
C14_Witness ==
    /\ \A id \in CacheIDs : lastPut[id] # NoQuery
    /\ lastPut["q1"] # lastPut["q2"]
    /\ calls["c1"] = 2 /\ calls["c2"] = 2
    /\ callPc["c3"] = "done" /\ callOp["c3"].kind = "get"
    /\ callOp["c3"].id = "q1" /\ callOp["c3"].res = lastPut["q1"]
    /\ DOMAIN searchQueries = CacheIDs

\* C15: an ID is marked in the search dedup cache only by the reload loop,
\* with the content of the request the loop stands at, in the step that
\* leads to the query of that request; and the next step of the loop is the
\* query of that ID, made with the content the cache holds for it, with no
\* cache operation in between.
C15_MarkedOnlyBeforeQuery ==
    [][ /\ searchQueries' # searchQueries =>
              /\ rlPc = "search" /\ rlPc' = "query" /\ rlIdx' = rlIdx
              /\ rlIdx <= Len(cfg.queries)
              /\ searchQueries' =
                    (cfg.queries[rlIdx][1] :> cfg.queries[rlIdx][2])
                        @@ searchQueries
        /\ rlPc = "query" =>
              /\ searchQueries' = searchQueries
              /\ cfg.queries[rlIdx][1] \in DOMAIN searchQueries
              /\ rlPc' # "query" =>
                    /\ cfg.queries[rlIdx][1] \in reloadQueried'
                    /\ searchLog'[cfg.queries[rlIdx][1]].all =
                          searchLog[cfg.queries[rlIdx][1]].all + 1
                    /\ searchLog'[cfg.queries[rlIdx][1]].last =
                          searchQueries[cfg.queries[rlIdx][1]] ]_vars

\* the reload of a write event has marked a request with a content that is
\* not empty and has queried it with that content
C15_Witness ==
    /\ rlEvent /\ rlPc = "search" /\ rlIdx > 1
    /\ cfg.queries[rlIdx - 1][1] \in reloadQueried
    /\ cfg.queries[rlIdx - 1][1] \notin DOMAIN cacheBefore
    /\ cfg.queries[rlIdx - 1][2] # EmptyText
    /\ searchQueries[cfg.queries[rlIdx - 1][1]] = cfg.queries[rlIdx - 1][2]
    /\ searchLog[cfg.queries[rlIdx - 1][1]].last = cfg.queries[rlIdx - 1][2]

\* the keys buildURL has a case for, and the parameter of each
RecognizedKeys ==
    {"Name", "Class", "Race", "Stat", "Slot", "Aug", "Type", "PriceMin",
     "PriceMax", "Direction"}

Prefix(key) ==
    CASE key = "Name" -> "&item="
      [] key = "Class" -> "&class="
      [] key = "Race" -> "&race="
      [] key = "Stat" -> "&stat="
      [] key = "Slot" -> "&slot="
      [] key = "Aug" -> "&aug_type="
      [] key = "Type" -> "&type="
      [] key = "PriceMin" -> "&pricemin="
      [] key = "PriceMax" -> "&pricemax="
      [] key = "Direction" -> "&direction="

IsRecognized(term) == term.Key \in RecognizedKeys

\* the pieces a list of recognized terms stands for, in order
RECURSIVE Pieces(_)
Pieces(terms) ==
    IF terms = << >> THEN << >>
    ELSE <<Prefix(Head(terms).Key)>> \o QueryEscape(Head(terms).Val)
            \o Pieces(Tail(terms))

\* C16: the output of buildURL is the base URL followed, for each term with
\* a recognized key and in input order, by the parameter prefix of the key
\* and the percent-encoded value; each prefix occurs once per term with its
\* key, no character that must be encoded is left in the output, and a term
\* with another key (Price, Compare, the empty key) adds nothing.
C16_UrlIsRecognizedTermsInOrder ==
    termKind # "none" =>
        /\ termUrl = <<BaseURL>> \o Pieces(SelectSeq(termList, IsRecognized))
        /\ \A k \in RecognizedKeys :
              Cardinality({i \in 1..Len(termUrl) : termUrl[i] = Prefix(k)})
                = Cardinality({j \in 1..Len(termList) : termList[j].Key = k})
        /\ \A i \in 1..Len(termUrl) : termUrl[i] \notin Punct

\* the terms of a monitor item with two recognized keys, one of them after
\* a term with the empty key, and a name with a space in it
C16_Witness ==
    /\ termKind = "monitor"
    /\ Len(termList) = 3
    /\ termList[2].Key = ""
    /\ termList[3].Key = "PriceMax"
    /\ Len(termUrl) = 7
    /\ termUrl[3] = "Velium" /\ termUrl[4] = "+"
    /\ termUrl[6] = "&pricemax="

\* a table row (tr) that has at least one cell
HasCells(tr) == tr # << >>

\* a text without the white space before its first and after its last
\* character that is none
Trimmed(text) ==
    LET solid == {i \in 1..Len(text) : text[i] # " "}
    IN  IF solid = {} THEN << >>
        ELSE SubSeq(text,
                    CHOOSE i \in solid : \A j \in solid : i <= j,
                    CHOOSE i \in solid : \A j \in solid : i >= j)

\* C17: the result of queryBazaar on a scraped table is one output row per
\* table row that has a cell, in table order, each holding the request ID
\* and then the trimmed texts of the cells of that row; a table row without
\* cells gives no output row.
C17_OneRowPerPopulatedRow ==
    (scrapeID # "none" /\ scrapePage.fetchOk) =>
        LET kept == SelectSeq(scrapePage.trs, HasCells)
        IN  /\ scrapeRes.ok
            /\ Len(scrapeRes.rows) = Len(kept)
            /\ \A i \in 1..Len(kept) :
                  /\ Len(scrapeRes.rows[i]) = Len(kept[i]) + 1
                  /\ scrapeRes.rows[i][1] = <<scrapeID>>
                  /\ \A j \in 1..Len(kept[i]) :
                        scrapeRes.rows[i][j + 1] = Trimmed(kept[i][j])

\* a table of two populated rows around a row without cells, with cells
\* that have white space around and inside their texts and a cell of white
\* space only: two output rows
C17_Witness ==
    /\ scrapeID = "c0a1"
    /\ scrapePage.trs = <<RowA, << >>, RowB>>
    /\ Len(scrapeRes.rows) = 2
    /\ scrapeRes.rows[1] =
          << <<"c0a1">>, <<"Fabled", " ", "Earthshaker">>, <<"70,000">>,
             <<"Baelish">> >>
    /\ scrapeRes.rows[2] =
          << <<"c0a1">>, <<"Velium", " ", "Shard">>, <<"500">>, << >> >>

\* the segments of the term string with a key, the value of a segment, and
\* the terms of the derived list
SegsWith(key) == {i \in 1..Len(termSegs) : termSegs[i][1] = key}

SegValue(i) == SubSeq(termSegs[i], 3, Len(termSegs[i]))

DerivedTerms == {termList[i] : i \in 1..Len(termList)}

UpperOps == {<<"<">>, <<"<", "=">>}

LowerOps == {<<">">>, <<">", "=">>}

\* C18 as stated: for every Price segment with value v and every Compare
\* segment with operator op of the term string of a monitor item, the
\* derived list includes (PriceMax, v) when op is < or <= and (PriceMin, v)
\* when op is > or >=.
C18_AnyPriceAnyCompare ==
    termKind = "monitor" =>
        \A p \in SegsWith("Price"), c \in SegsWith("Compare") :
            /\ SegValue(c) \in UpperOps =>
                  [Key |-> "PriceMax", Val |-> SegValue(p)] \in DerivedTerms
            /\ SegValue(c) \in LowerOps =>
                  [Key |-> "PriceMin", Val |-> SegValue(p)] \in DerivedTerms

\* C18, amended: when the term string of a monitor item holds exactly one
\* Price segment, with value v, and exactly one Compare segment, with
\* operator op, in either order and with any other segments around them, the
\* derived list includes (PriceMax, v) and no PriceMin term when op is < or
\* <=, and (PriceMin, v) and no PriceMax term when op is > or >=.
C18_OnePriceOneCompare ==
    (/\ termKind = "monitor"
     /\ Cardinality(SegsWith("Price")) = 1
     /\ Cardinality(SegsWith("Compare")) = 1) =>
        LET v == SegValue(CHOOSE p \in SegsWith("Price") : TRUE)
            op == SegValue(CHOOSE c \in SegsWith("Compare") : TRUE)
        IN  /\ op \in UpperOps =>
                  /\ [Key |-> "PriceMax", Val |-> v] \in DerivedTerms
                  /\ \A t \in DerivedTerms : t.Key # "PriceMin"
            /\ op \in LowerOps =>
                  /\ [Key |-> "PriceMin", Val |-> v] \in DerivedTerms
                  /\ \A t \in DerivedTerms : t.Key # "PriceMax"

\* the item "Velium Shard" with Price|1000/Compare|>: a PriceMin term of
\* value 1000
C18_Witness ==
    /\ termKind = "monitor" /\ termName = "Velium Shard"
    /\ termSegs = << <<"Price", "|", "1000">>, <<"Compare", "|", ">">> >>
    /\ [Key |-> "PriceMin", Val |-> <<"1000">>] \in DerivedTerms
    /\ [Key |-> "PriceMax", Val |-> <<"1000">>] \notin DerivedTerms

\* C19: any I/O failure on a result store terminates the process. When the
\* write of the rows of a monitor item to the monitor store has failed, the
\* process is not running, so neither trigger queries, updates a cache or
\* writes a store afterwards.
C19_StoreFailureIsFatal ==
    pollFetch = "lost" => ~alive

\* the poll goroutine is not starved: a step of a poll cycle that can be
\* taken is taken
FairSpec == Spec /\ WF_vars(PollDelete) /\ WF_vars(PollQuery)

\* under FairSpec every item the range of a poll cycle has still to pass is
\* queried in that cycle, unless the process exits
PollCycleQueriesItsItems ==
    \A k \in Names :
        (alive /\ pollPc = "iter" /\ k \in pollTodo)
            ~> (~alive \/ k \in pollQueried)

\* an item that is registered and stays so: it is in the monitor set, or a
\* reload is replacing the set and the item is in the set it cleared and in
\* the Monitor section it is registering
StaysRegistered(k) ==
    IF rlPc = "update"
    THEN /\ k \in DOMAIN monOld
         /\ \E i \in 1..Len(cfg.monitor) : cfg.monitor[i][1] = k
    ELSE k \in DOMAIN monitorQueries

\* C20: every monitor item that stays registered is queried in every poll
\* cycle, whatever the dedup cache holds: when the range of a cycle is over,
\* every such item has been queried in that cycle.
C20_RegisteredQueriedEveryCycle ==
    (alive /\ mutex = "poll" /\ pollPc = "iter" /\ pollTodo = {}) =>
        \A k \in Names : StaysRegistered(k) => k \in pollQueried

\* the rows of a store that are not the header
DataRows(store) == SelectSeq(store, LAMBDA row : row # Header)

\* the rows of a sequence of appends, one after the other
RECURSIVE ConcatRows(_)
ConcatRows(appends) ==
    IF appends = << >> THEN << >>
    ELSE Head(appends).rows \o ConcatRows(Tail(appends))

Before(a, b) ==
    \E sec \in MonitorSections :
        \E i, j \in 1..Len(sec) : i < j /\ sec[i][1] = a /\ sec[j][1] = b

\* C22: within the batch of one trigger the requests are handled in source
\* order, one after the other. A reload that is querying a request has
\* queried only requests that stand before it in the Queries section, and a
\* poll cycle that is querying an item has queried no item that stands
\* after it in the Monitor section.
C22_BatchInSourceOrder ==
    /\ rlPc = "query" =>
          reloadQueried \subseteq {cfg.queries[i][1] : i \in 1..(rlIdx - 1)}
    /\ pollPc = "query" =>
          \A k \in pollQueried : ~Before(pollKey, k)

\* a step of a reload, a step of a poll cycle
ReloadStep ==
    \/ GetPollDelay \/ ClampDelay \/ DeleteMonitorQueries
    \/ UpdateMonitorQuery \/ GetQueriesSection \/ SearchNext \/ SearchQuery
    \/ ReloadReturn

PollStep == PollLock \/ PollDelete \/ PollQuery \/ PollUnlock \/ PollSleep

\* C23: after the startup initialization the stores have disjoint writers.
\* No step of a reload changes the monitor store and no step of a poll
\* cycle changes the search store; the search store changes only in the
\* query step of the reload, which leaves the poll goroutine where it is,
\* and the monitor store only in a step of the poll cycle, which leaves the
\* reload where it is.
C23_StoresHaveDisjointWriters ==
    [][ (mainPc = "firstLoad" \/ mainPc = "running") =>
          /\ ReloadStep => monitorStore' = monitorStore
          /\ PollStep => searchStore' = searchStore
          /\ searchStore' # searchStore =>
                (rlPc = "query" /\ UNCHANGED <<pollVars, monitorStore>>)
          /\ monitorStore' # monitorStore =>
                (pollPc \in {"iter", "query"} /\ UNCHANGED <<rlVars, searchVars>>)
        ]_vars

\* the reload of a write event and a poll cycle are both in their batch and
\* each has written rows to its store
C23_Witness ==
    /\ rlEvent /\ rlPc = "search" /\ reloadRows # << >>
    /\ mutex = "poll" /\ pollPc = "iter"
    /\ pollFetch = "ok" /\ pollRows # << >>
    /\ searchStore # monitorStore

\* C24: a poll cycle passes through a state of the monitor store in which
\* the rows of the item being processed are deleted and its new rows are
\* not yet written, while the header and the rows of every other item are
\* what they were. Every state between deleteFromMonitorCSV and the end of
\* queryBazaar is such a state.
C24_TransientWithoutItemRows ==
    (alive /\ pollPc = "query") =>
        /\ RowsOf(monitorStore, DerivedID(pollKey)) = << >>
        /\ OtherRows(monitorStore, DerivedID(pollKey)) =
              OtherRows(monBefore, DerivedID(pollKey))
        /\ Len(monitorStore) =
              Len(monBefore) - Len(RowsOf(monBefore, DerivedID(pollKey)))

\* the item being processed had rows from an earlier cycle, another item
\* has rows too, and the query of the item is still to come
C24_Witness ==
    /\ alive /\ pollPc = "query"
    /\ RowsOf(monBefore, DerivedID(pollKey)) # << >>
    /\ RowsOf(monitorStore, DerivedID(pollKey)) = << >>
    /\ Len(monitorStore) > 1
    /\ Head(monitorStore) = Header

\* C25: a term string of a monitor item whose Compare segments all carry an
\* operator outside <, <=, >, >= still gives a term list and a query for
\* the item: the list starts with the Name term of the item, the URL
\* carries the item, and no term of the list has the key PriceMin or
\* PriceMax.
C25_UnknownOperatorGivesNoBound ==
    (/\ termKind = "monitor"
     /\ SegsWith("Compare") # {}
     /\ \A c \in SegsWith("Compare") :
           SegValue(c) \notin UpperOps \cup LowerOps) =>
        /\ termList[1] = [Key |-> "Name", Val |-> NameText(termName)]
        /\ Len(termUrl) >= 3 /\ termUrl[2] = "&item="
        /\ \A t \in DerivedTerms : t.Key \notin {"PriceMin", "PriceMax"}
        /\ \A i \in 1..Len(termUrl) :
              termUrl[i] \notin {"&pricemin=", "&pricemax="}

\* the item "Velium Shard" with Price|1000/Compare|=: the Name term and the
\* term of the Price segment with no key
C25_Witness ==
    /\ termKind = "monitor" /\ termName = "Velium Shard"
    /\ termSegs = << <<"Price", "|", "1000">>, <<"Compare", "|", "=">> >>
    /\ termList = << [Key |-> "Name", Val |-> <<"Velium", " ", "Shard">>],
                     [Key |-> "", Val |-> <<"1000">>] >>
    /\ termUrl = <<BaseURL, "&item=", "Velium", "+", "Shard">>

\* C26: a poll cycle holds monitorQueriesMutex from its first to its last
\* item. While it runs the monitor set does not change and the steps of a
\* reload on the monitor set are not enabled; the cycle queries an item only
\* when it has not yet queried it, and when its range is over it has
\* queried every item that was in the set when it took the mutex.
C26_CycleHoldsMonitorSet ==
    [][ /\ mutex = "poll" <=> pollPc \in {"iter", "query"}
        /\ mutex = "poll" =>
              /\ monitorQueries' = monitorQueries
              /\ ~ENABLED (DeleteMonitorQueries /\ rlPc' = "update")
              /\ ~ENABLED UpdateMonitorQuery
              /\ pollQueried \cup pollTodo \subseteq DOMAIN monitorQueries
        /\ pollQueried' # pollQueried /\ pollQueried' # {} =>
              /\ pollKey \notin pollQueried
              /\ pollQueried' = pollQueried \cup {pollKey}
        /\ (pollPc = "iter" /\ pollTodo = {}) =>
              pollQueried = DOMAIN monitorQueries ]_vars

\* a cycle has queried the two items of the set while the reload of a write
\* event stands at its step on the monitor set
C26_Witness ==
    /\ alive /\ mutex = "poll" /\ pollPc = "iter" /\ pollTodo = {}
    /\ Cardinality(pollQueried) = 2
    /\ rlEvent /\ rlPc = "monitorSection"

\* an ID that is marked with non-empty content and whose query is not the
\* step the reload stands at
Settled(id) ==
    /\ getSearchQuery(searchQueries, id) # EmptyText
    /\ ~(rlPc = "query" /\ cfg.queries[rlIdx][1] = id)

\* C27: the step in which the fetch for a request with non-empty content
\* fails leaves the ID marked with that content and writes nothing to the
\* search store; and from then on, as for every ID that is marked with
\* non-empty content and past its query, no step queries the ID, changes
\* its cache entry or changes the rows the search store holds for it.
C27_FailedRequestStaysMarked ==
    [][ /\ \A id \in reloadFailed' \ reloadFailed :
              (rlPc = "query" /\ cfg.queries[rlIdx][2] # EmptyText) =>
                  /\ id = cfg.queries[rlIdx][1]
                  /\ getSearchQuery(searchQueries', id) = cfg.queries[rlIdx][2]
                  /\ searchStore' = searchStore
                  /\ Settled(id)'
        /\ \A id \in SearchIDs :
              Settled(id) =>
                  /\ Settled(id)'
                  /\ searchQueries'[id] = searchQueries[id]
                  /\ searchLog'[id] = searchLog[id]
                  /\ RowsOf(searchStore', id) = RowsOf(searchStore, id) ]_vars

\* the reload of a write event has come to its end; the fetch for a request
\* with non-empty content failed in it, the ID is marked with that content
\* and the search store holds no row for it
C27_Witness ==
    /\ rlEvent /\ rlPc = "done" /\ rlOutcome = "complete"
    /\ \E i \in 1..Len(cfg.queries) :
          /\ cfg.queries[i][1] \in reloadFailed
          /\ cfg.queries[i][2] # EmptyText
          /\ getSearchQuery(searchQueries, cfg.queries[i][1]) = cfg.queries[i][2]
          /\ RowsOf(searchStore, cfg.queries[i][1]) = << >>

\* every request of the Queries section of the loaded file has content
AllContentNonEmpty == \A q \in ConfigQueries : q[2] # EmptyText

C29_RemovedItemKeepsRows ==
    [][ (mainPc = "firstLoad" \/ mainPc = "running") =>
          \A k \in Names :
              (k \notin DOMAIN monitorQueries /\ k \notin DOMAIN monitorQueries')
                  => RowsOf(monitorStore', DerivedID(k)) =
                         RowsOf(monitorStore, DerivedID(k)) ]_vars

\* a reload of a write event has removed an item whose rows an earlier
\* cycle wrote, and a later cycle has run over the remaining item and
\* written its rows: the rows of the removed item are still in the store
C29_Witness ==
    /\ alive /\ reloads = 1 /\ rlPc = "idle"
    /\ cycles = 2 /\ mutex = "poll" /\ pollPc = "iter" /\ pollTodo = {}
    /\ pollQueried = DOMAIN monitorQueries
    /\ pollFetch = "ok" /\ pollRows # << >>
    /\ \E k \in Names :
          /\ k \notin DOMAIN monitorQueries
          /\ RowsOf(monitorStore, DerivedID(k)) # << >>

\* the first row of a store is the header
HeaderFirst(store) == Len(store) >= 1 /\ store[1] = Header

\* C30: once the startup initialization is over, the first row of the
\* search store and the first row of the monitor store is the header
\* QueryID,Item,Price,Seller, and deleteFromMonitorCSV keeps the header
\* for the derived ID of every item.
C30_HeaderStaysFirst ==
    /\ Header = << <<"QueryID">>, <<"Item">>, <<"Price">>, <<"Seller">> >>
    /\ mainPc \in {"firstLoad", "running"} =>
          /\ HeaderFirst(searchStore)
          /\ HeaderFirst(monitorStore)
          /\ \A k \in Names :
                HeaderFirst(deleteFromMonitorCSV(monitorStore, DerivedID(k)))

\* both stores hold rows after the header, and deleteFromMonitorCSV has
\* just removed the rows of an item from the monitor store
C30_Witness ==
    /\ alive /\ mainPc = "running" /\ pollPc = "query"
    /\ RowsOf(monBefore, DerivedID(pollKey)) # << >>
    /\ Len(monitorStore) > 1 /\ monitorStore[1] = Header
    /\ Len(searchStore) > 1 /\ searchStore[1] = Header

\* the positions of the price-bound parameters in the URL of the query
PriceBoundParams ==
    {i \in 1..Len(termUrl) : termUrl[i] \in {"&pricemin=", "&pricemax="}}

\* the value of the parameter at position i of the URL: the pieces up to
\* the next parameter
ParamValue(i) ==
    LET nexts == {j \in (i + 1)..Len(termUrl) :
                     termUrl[j] \in {Prefix(k) : k \in RecognizedKeys}}
        last == IF nexts = {} THEN Len(termUrl)
                ELSE (CHOOSE j \in nexts : \A m \in nexts : j <= m) - 1
    IN  SubSeq(termUrl, i + 1, last)

\* C31: for a monitor item whose term string holds one Price segment and one
\* Compare segment with a valid operator, in either order, the URL of its
\* query has exactly one price-bound parameter (pricemin or pricemax) and the
\* value of that parameter is the configured price.
C31_OnePriceBoundParameter ==
    (/\ termKind = "monitor"
     /\ Cardinality(SegsWith("Price")) = 1
     /\ Cardinality(SegsWith("Compare")) = 1
     /\ \A c \in SegsWith("Compare") : SegValue(c) \in UpperOps \cup LowerOps) =>
        /\ Cardinality(PriceBoundParams) = 1
        /\ \A i \in PriceBoundParams :
              ParamValue(i) =
                  QueryEscape(SegValue(CHOOSE p \in SegsWith("Price") : TRUE))

====
